---------------------------- MODULE Spec2Model ----------------------------
(***************************************************************************)
(* A model of empyricalRMT's construction module (rmt/construct.py), its   *)
(* ensemble formulas (rmt/ensemble.py) and the Unfolded container          *)
(* (rmt/unfold.py).                                                        *)
(*                                                                         *)
(* Reals are fixed-point integers: the real x is the integer x * SCALE,    *)
(* and every operation rounds to nearest.  The process-wide numpy           *)
(* generator is the variable rng; a client makes one synchronous call at   *)
(* a time, the finished call is the variable call, and Return hands the    *)
(* result to the client.  The variable obj is the Unfolded object a client  *)
(* holds, the variable files the .npy files on disk.  Spec is the          *)
(* behaviour of construct.py, SpecEns that of the ensemble formulas,       *)
(* SpecUnf that of Unfolded objects, SpecCache that of the eigenvalue      *)
(* cache of tests/test_nnsd.py.                                            *)
(***************************************************************************)
EXTENDS Integers, Sequences, FiniteSets, TLC

VARIABLES rng, call, obj, files

vars == <<rng, call, obj, files>>

(* ------------------------------ bounds -------------------------------- *)
\* the generator has RngPeriod states
RngPeriod == 7
\* matrix sizes 1..MaxSmall are used where the whole matrix is enumerated
MaxSmall == 3
\* fast_poisson_eigs is also called with matsize up to FastPathMin + MaxExtra
MaxExtra == 1
\* small sub-matrix sizes 1..MaxSub
MaxSub == 3

(* --------------------------- fixed point ------------------------------ *)
\* Reals are binary fixed-point numbers: the real x is the integer
\* x * SCALE, and every operation rounds its exact result to the nearest
\* representable number, as IEEE 754 arithmetic does.
SCALE == 2^6

\* the extra resolution np_arctan works in before it rounds its result
GUARD == 2^4

HI == SCALE * GUARD

\* IEEE 754 special values
Inf == 2^29

NaN == 2^30

Abs(x) == IF x < 0 THEN -x ELSE x

Sign(x) == IF x < 0 THEN -1 ELSE IF x > 0 THEN 1 ELSE 0

\* a / b rounded to the nearest integer (ties away from zero), b > 0
RDiv(a, b) == Sign(a) * ((2 * Abs(a) + b) \div (2 * b))

\* the product of two fixed-point numbers
FMul(a, b) == RDiv(a * b, SCALE)

\* the quotient of two fixed-point numbers, b # 0
FDiv(a, b) == Sign(b) * RDiv(a * SCALE, Abs(b))

RECURSIVE ISqrtIter(_, _, _)
ISqrtIter(n, lo, hi) ==
    IF lo >= hi THEN lo
    ELSE LET mid == (lo + hi + 1) \div 2
         IN  IF mid * mid <= n THEN ISqrtIter(n, mid, hi)
             ELSE ISqrtIter(n, lo, mid - 1)

\* the square root of a natural number, rounded to the nearest integer
ISqrt(n) ==
    LET r == ISqrtIter(n, 0, 46339)
    IN  IF n - r * r > r THEN r + 1 ELSE r

\* np.sqrt of a fixed-point number x >= 0
FSqrt(x) == ISqrt(x * SCALE)

\* np.pi
PI == RDiv(355 * SCALE, 113)

\* np.sqrt(2)
Sqrt2 == FSqrt(2 * SCALE)

\* arctan(t) for 0 <= t <= tan(pi/8), at resolution HI: the Taylor series
ArctanSeries(t) ==
    LET t2 == RDiv(t * t, HI)
        t3 == RDiv(t2 * t, HI)
        t5 == RDiv(t3 * t2, HI)
        t7 == RDiv(t5 * t2, HI)
    IN  t - RDiv(t3, 3) + RDiv(t5, 5) - RDiv(t7, 7)

\* arctan(t) for 0 <= t <= 1, at resolution HI:
\* arctan(t) = 2 arctan(t / (1 + sqrt(1 + t^2)))
Arctan01(t) == 2 * ArctanSeries(RDiv(t * HI, HI + ISqrt(HI * HI + t * t)))

\* np.arctan of a fixed-point number or +/-Inf
np_arctan(x) ==
    LET a == Abs(x)
        v == IF a = Inf THEN RDiv(355 * HI, 2 * 113)
             ELSE IF a <= SCALE THEN Arctan01(a * GUARD)
             ELSE RDiv(355 * HI, 2 * 113) - Arctan01(RDiv(SCALE * HI, a))
    IN  Sign(x) * RDiv(v, GUARD)

(* ------------------------------ sorting ------------------------------- *)
\* the array with the entries of f, each computed once
Array(f) == f \o <<>>

\* F applied to the value of v, which is computed once
Bind(v, F(_)) == CHOOSE y \in {F(x) : x \in {v}} : TRUE

\* the position each entry of array a takes in ascending order (equal
\* entries keep their order)
Ranks(a) ==
    Array([i \in 1..Len(a) |->
        Cardinality({j \in 1..Len(a) :
            a[j] < a[i] \/ (a[j] = a[i] /\ j < i)}) + 1])

SortArray(a) ==
    LET Place(rank) ==
            Array([k \in 1..Len(a) |-> a[CHOOSE i \in 1..Len(a) : rank[i] = k]])
    IN  Bind(Ranks(a), Place)

\* np.sort: the ascending rearrangement of a sequence
np_sort(s) == Bind(Array(s), SortArray)

IsAscending(s) == \A i \in 1..(Len(s) - 1) : s[i] <= s[i + 1]

(* ------------------------- the shared generator ----------------------- *)
\* the standard-normal variates the generator yields, one per state (in
\* units of 1/64)
NormalTable ==
    << 0, RDiv(91 * SCALE, 64), -RDiv(32 * SCALE, 64), RDiv(158 * SCALE, 64),
       -RDiv(91 * SCALE, 64), RDiv(32 * SCALE, 64), -RDiv(192 * SCALE, 64),
       RDiv(128 * SCALE, 64) >>

\* the k-th variate (k = 0, 1, ...) drawn from generator state s
Draw(s, k) == NormalTable[(((s + k) % RngPeriod) % Len(NormalTable)) + 1]

\* the generator state after n draws from state s
Advance(s, n) == (s + n) % RngPeriod

\* np.random.standard_normal([rows, cols]) from state s: row-major fill
standard_normal(s, rows, cols) ==
    [i \in 1..rows |-> [j \in 1..cols |-> Draw(s, (i - 1) * cols + (j - 1))]]

\* np.random.normal(mean, sd, [rows, cols]) from state s
normal(s, mean, sd, rows, cols) ==
    [i \in 1..rows |-> [j \in 1..cols |->
        mean + FMul(sd, Draw(s, (i - 1) * cols + (j - 1)))]]

(* ------------------------- matrix construction ------------------------ *)
\* a square ndarray: its shape n x n and its entries a[i][j]

\* _generate_GOE_matrix(size, mean, sd) with seed=None, from state s
generate_GOE_matrix(s, size, mean, sd) ==
    LET M == IF mean # 0 \/ sd # SCALE
             THEN normal(s, mean, sd, size, size)
             ELSE standard_normal(s, size, size)
    IN  [n |-> size,
         a |-> [i \in 1..size |-> [j \in 1..size |->
                  FDiv(M[i][j] + M[j][i], Sqrt2)]]]

\* _generate_poisson(size): np.diag of size standard-normal draws
generate_poisson(s, size) ==
    [n |-> size,
     a |-> [i \in 1..size |-> [j \in 1..size |->
              IF i = j THEN Draw(s, i - 1) ELSE 0]]]

\* the "gue" branch of generate_eigs: M = (A + A^H) / 2 with
\* A = standard_normal(size) + 1j * standard_normal(size)
generate_GUE_matrix(s, size) ==
    LET X == standard_normal(s, size, size)
        Y == standard_normal(Advance(s, size * size), size, size)
    IN  [n |-> size,
         a |-> [i \in 1..size |-> [j \in 1..size |->
                  [re |-> RDiv(X[i][j] + X[j][i], 2),
                   im |-> RDiv(Y[i][j] - Y[j][i], 2)]]]]

(* --------------------------- eigenvalues ------------------------------ *)
\* the eigenvalues of the symmetric [[a, b], [b, d]] (off2 = b^2, or
\* |b|^2 for a Hermitian matrix): (a + d -/+ sqrt((a - d)^2 + 4 off2)) / 2
Eigs2(a, d, off2) ==
    LET r == ISqrt((a - d) * (a - d) + 4 * off2)
    IN  << RDiv(a + d - r, 2), RDiv(a + d + r, 2) >>

\* np.linalg.eigvalsh of a real symmetric matrix: the ascending eigenvalues.
\* Exact up to rounding for sizes 0, 1, 2 and for diagonal matrices; for a
\* larger matrix the library's contract is kept (one value per row, ascending,
\* a function of the matrix) with the sorted diagonal standing for the values.
eigvalsh(M) ==
    IF M.n = 2 THEN Eigs2(M.a[1][1], M.a[2][2], M.a[1][2] * M.a[1][2])
    ELSE np_sort([i \in 1..M.n |-> M.a[i][i]])

\* np.linalg.eigvalsh of a complex Hermitian matrix
eigvalsh_complex(M) ==
    IF M.n = 2
    THEN Eigs2(M.a[1][1].re, M.a[2][2].re,
               M.a[1][2].re * M.a[1][2].re + M.a[1][2].im * M.a[1][2].im)
    ELSE np_sort([i \in 1..M.n |-> M.a[i][i].re])

(* ---------------------------- call results ---------------------------- *)
NoCall == [op |-> "none"]

NoObj == [kind |-> "none"]

\* a call that returned value v after printing `lines` lines to standard
\* output, leaving the generator in state s
Returned(v, s, lines) ==
    [status |-> "returned", value |-> v, rng |-> s, printed |-> lines]

\* a call that raised an exception of Python class cls, leaving the
\* generator in state s
Raised(cls, msg, s) ==
    [status |-> "raised", error |-> [class |-> cls, msg |-> msg], rng |-> s,
     printed |-> 0]

(* ---------------------------- generate_eigs --------------------------- *)
KindsListed == <<"goe", "gue", "poisson", "uniform">>

generate_eigs_lenient(s, matsize, mean, sd, kind, log) ==
    LET lines == IF log THEN 2 ELSE 0
    IN  IF kind = "poisson"
        THEN Returned(eigvalsh(generate_poisson(s, matsize)),
                      Advance(s, matsize), lines)
        ELSE IF kind = "gue"
        THEN Returned(eigvalsh_complex(generate_GUE_matrix(s, matsize)),
                      Advance(s, 2 * matsize * matsize), lines)
        ELSE IF kind = "goe" \/ kind = "uniform"
        THEN Returned(eigvalsh(generate_GOE_matrix(s, matsize, mean, sd)),
                      Advance(s, matsize * matsize), lines)
        ELSE Raised("ValueError", <<"kind must be one of">> \o KindsListed, s)

generate_eigs(s, matsize, mean, sd, kind, log) ==
    LET lines == IF log THEN 2 ELSE 0
    IN  IF kind = "poisson"
        THEN Returned(eigvalsh(generate_poisson(s, matsize)),
                      Advance(s, matsize), lines)
        ELSE IF kind = "uniform"
        THEN Raised("Exception", <<"UNIMPLEMENTED!">>, s)
        ELSE IF kind = "gue"
        THEN Returned(eigvalsh_complex(generate_GUE_matrix(s, matsize)),
                      Advance(s, 2 * matsize * matsize), lines)
        ELSE IF kind = "goe"
        THEN Returned(eigvalsh(generate_GOE_matrix(s, matsize, mean, sd)),
                      Advance(s, matsize * matsize), lines)
        ELSE Raised("ValueError", <<"kind must be one of">> \o KindsListed, s)

(* ------------------------------ Unfolded ------------------------------ *)
\* EigVals.__init__(eigenvalues): the container keeps the spectrum it is given
EigVals_init(eigenvalues) == [kind |-> "Unfolded", originals |-> eigenvalues]

\* Unfolded.__init__(originals, unfolded)
Unfolded_init(originals, unfolded) ==
    [EigVals_init(originals) EXCEPT !.kind = "Unfolded"] @@ [vals |-> unfolded]

(* ----------------------------- goe_unfolded --------------------------- *)
\* what explicit(E) yields when no case applies: raise ValueError
Unreachable == 2^28

\* the closed-form level density of goe_unfolded, for eigenvalue E
explicit(E, N) ==
    IF Abs(E) <= 2 * FSqrt(N * SCALE)
    THEN LET rad == 4 * N * SCALE - FMul(E, E)
         IN  IF rad < 0
             THEN NaN  \* np.sqrt of a negative number; every later step keeps it
             ELSE LET root == FSqrt(rad)
                      ratio == IF root = 0 THEN Sign(E) * Inf
                               ELSE FDiv(E, root)
                  IN  SCALE \div 2
                      + FMul(FDiv(E, 4 * N * PI), root)
                      + FMul(FDiv(SCALE, PI), np_arctan(ratio))
    ELSE IF E < -2 * FSqrt(N * SCALE) THEN 0
    ELSE IF E > 2 * FSqrt(N * SCALE) THEN SCALE
    ELSE Unreachable

goe_unfolded(s, matsize) ==
    LET N == matsize
        eigs == eigvalsh(generate_GOE_matrix(s, N, 0, SCALE))
        x == [i \in 1..N |-> explicit(eigs[i], N)]
        unfolded == [i \in 1..N |-> IF x[i] = NaN THEN NaN ELSE N * x[i]]
    IN  IF \E i \in 1..N : x[i] = Unreachable
        THEN Raised("ValueError", <<"Unreachable!">>, Advance(s, N * N))
        ELSE Returned(Unfolded_init(eigs, unfolded), Advance(s, N * N), 0)

(* --------------------------- fast_poisson_eigs ------------------------ *)
\* the matsize below which fast_poisson_eigs calls generate_eigs
FastPathMin == 100

\* int(matsize / sub_matsize), for matsize >= 0 and sub_matsize > 0
n_submats(matsize, sub_matsize) == matsize \div sub_matsize

last_matsize_none(matsize, sub_matsize) == 0

last_matsize(matsize, sub_matsize) == matsize % sub_matsize

\* the generator state after i sub-matrices were drawn from state s
AfterBlocks(s, i, sub_matsize) == Advance(s, i * sub_matsize * sub_matsize)

\* eigs_submats.flatten(): the eigenvalues of the n_submats GOE sub-matrices,
\* block after block
eigs_submats(s, matsize, sub_matsize) ==
    LET Blocks(rows) ==
            Array([k \in 1..(n_submats(matsize, sub_matsize) * sub_matsize) |->
                rows[((k - 1) \div sub_matsize) + 1]
                    [((k - 1) % sub_matsize) + 1]])
    IN  Bind(Array([i \in 1..n_submats(matsize, sub_matsize) |->
                eigvalsh(generate_GOE_matrix(AfterBlocks(s, i - 1, sub_matsize),
                                             sub_matsize, 0, SCALE))]),
             Blocks)

\* the eigenvalues of the remainder sub-matrix
eigs_remain(s, matsize, sub_matsize) ==
    eigvalsh(generate_GOE_matrix(
        AfterBlocks(s, n_submats(matsize, sub_matsize), sub_matsize),
        last_matsize(matsize, sub_matsize), 0, SCALE))

\* the generator state after the block path
AfterFastPath(s, matsize, sub_matsize) ==
    Advance(AfterBlocks(s, n_submats(matsize, sub_matsize), sub_matsize),
            last_matsize(matsize, sub_matsize)
                * last_matsize(matsize, sub_matsize))

fast_path_unsorted(s, matsize, sub_matsize) ==
    Returned(eigs_submats(s, matsize, sub_matsize)
                \o eigs_remain(s, matsize, sub_matsize),
             AfterFastPath(s, matsize, sub_matsize), 0)

\* the block path of fast_poisson_eigs
fast_path(s, matsize, sub_matsize) ==
    Returned(np_sort(eigs_submats(s, matsize, sub_matsize)
                        \o eigs_remain(s, matsize, sub_matsize)),
             AfterFastPath(s, matsize, sub_matsize), 0)

SubmatricesError ==
    <<"Submatrices must be smaller in order to speed calculation.">>

fast_poisson_eigs_gt(s, matsize, sub_matsize) ==
    IF matsize < FastPathMin
    THEN generate_eigs(s, matsize, 0, SCALE, "goe", FALSE)
    ELSE IF sub_matsize > matsize
    THEN Raised("ValueError", SubmatricesError, s)
    ELSE IF sub_matsize = 0
    THEN Raised("ZeroDivisionError", <<"division by zero">>, s)
    ELSE fast_path(s, matsize, sub_matsize)

fast_poisson_eigs_poisson(s, matsize, sub_matsize) ==
    IF matsize < FastPathMin
    THEN generate_eigs(s, matsize, 0, SCALE, "poisson", FALSE)
    ELSE IF sub_matsize >= matsize
    THEN Raised("ValueError", SubmatricesError, s)
    ELSE IF sub_matsize = 0
    THEN Raised("ZeroDivisionError", <<"division by zero">>, s)
    ELSE fast_path(s, matsize, sub_matsize)

fast_poisson_eigs(s, matsize, sub_matsize) ==
    IF matsize < FastPathMin
    THEN generate_eigs(s, matsize, 0, SCALE, "goe", FALSE)
    ELSE IF sub_matsize >= matsize
    THEN Raised("ValueError", SubmatricesError, s)
    ELSE IF sub_matsize = 0
    THEN Raised("ZeroDivisionError", <<"division by zero">>, s)
    ELSE fast_path(s, matsize, sub_matsize)

(* --------------------------- generate_uniform ------------------------- *)
generate_uniform_drawn(s, matsize, lower, upper) ==
    Raised("NotImplementedError", <<>>, Advance(s, matsize * matsize))

generate_uniform(s, matsize, lower, upper) ==
    Raised("NotImplementedError", <<>>, s)

(* ------------------------ numpy on fixed point ------------------------ *)
\* a + b and a * b on values that may be NaN or infinite
FAddX(a, b) ==
    IF a = NaN \/ b = NaN THEN NaN
    ELSE IF Abs(a) = Inf /\ Abs(b) = Inf THEN IF a = b THEN a ELSE NaN
    ELSE IF Abs(a) = Inf THEN a
    ELSE IF Abs(b) = Inf THEN b
    ELSE a + b

FMulX(a, b) ==
    IF a = NaN \/ b = NaN THEN NaN
    ELSE IF Abs(a) = Inf \/ Abs(b) = Inf
    THEN IF a = 0 \/ b = 0 THEN NaN ELSE Sign(a) * Sign(b) * Inf
    ELSE FMul(a, b)

\* e and ln 2 at resolution HI
E_HI == RDiv(271828 * HI, 100000)

LN2_HI == RDiv(693147 * HI, 1000000)

\* the largest argument whose exponential the integers of the model hold;
\* no call of the model passes a larger one
ExpMax == 6 * SCALE

\* the Taylor series of exp(t) from its k-th term on, at resolution HI
RECURSIVE ExpTerms(_, _, _)
ExpTerms(t, term, k) ==
    IF term = 0 THEN 0
    ELSE term + ExpTerms(t, RDiv(term * t, k * HI), k + 1)

\* v * e^n
RECURSIVE TimesE(_, _)
TimesE(v, n) ==
    IF n = 0 THEN v
    ELSE IF n > 0 THEN TimesE(RDiv(v * E_HI, HI), n - 1)
    ELSE TimesE(RDiv(v * HI, E_HI), n + 1)

np_exp(x) ==
    IF x = NaN THEN NaN
    ELSE IF x = -Inf THEN 0
    ELSE IF x > ExpMax THEN Inf
    ELSE IF x < -ExpMax THEN 0
    ELSE LET n == x \div SCALE
             f == x - n * SCALE
         IN  RDiv(TimesE(ExpTerms(f * GUARD, HI, 1), n), GUARD)

\* 2 * atanh(z) for 0 <= z <= 1/3, at resolution HI
Atanh2(z) ==
    LET z2 == RDiv(z * z, HI)
        z3 == RDiv(z * z2, HI)
        z5 == RDiv(z3 * z2, HI)
        z7 == RDiv(z5 * z2, HI)
    IN  2 * (z + RDiv(z3, 3) + RDiv(z5, 5) + RDiv(z7, 7))

\* ln(m * 2^k), with m at resolution HI brought into [1, 2)
RECURSIVE LogNorm(_, _)
LogNorm(m, k) ==
    IF m >= 2 * HI THEN LogNorm(RDiv(m, 2), k + 1)
    ELSE IF m < HI THEN LogNorm(2 * m, k - 1)
    ELSE k * LN2_HI + Atanh2(RDiv((m - HI) * HI, m + HI))

np_log(x) ==
    IF x = NaN \/ x < 0 THEN NaN
    ELSE IF x = 0 THEN -Inf
    ELSE IF x = Inf THEN Inf
    ELSE RDiv(LogNorm(x * GUARD, 0), GUARD)

\* s ** e for a positive exponent e that is not an integer
np_power(s, e) ==
    IF s = NaN \/ s < 0 THEN NaN
    ELSE IF s = 0 THEN 0
    ELSE IF s = Inf THEN Inf
    ELSE np_exp(FMul(e, np_log(s)))

\* np.linspace(start, stop, num): num < 0 is an error inside numpy, which
\* the callers here pass on
np_linspace(start, stop, num) ==
    Array([i \in 1..num |->
        IF num > 1 /\ i = num THEN stop
        ELSE IF num = 1 THEN start
        ELSE start + RDiv((i - 1) * (stop - start), num - 1)])

\* an optional argument: None, or the array given
None == {}

Given(a) == {a}

ValueOf(opt) == CHOOSE a \in opt : TRUE

\* the array of F at each entry of s
Pointwise(F(_), s) ==
    LET Apply(a) == Array([i \in 1..Len(a) |-> F(a[i])])
    IN  Bind(s, Apply)

Halved(s) ==
    LET Half(x) == RDiv(x, 2)
    IN  Pointwise(Half, s)

\* the outcome of an ensemble operation, which draws nothing
Value(v) == [status |-> "returned", value |-> v]

Failure(cls, msg) ==
    [status |-> "raised", error |-> [class |-> cls, msg |-> msg]]

(* ------------------------------ ensembles ----------------------------- *)
euler_gamma == RDiv(5772157 * SCALE, 10000000)

P2 == FMul(PI, PI)

P3 == FMul(P2, PI)

\* scipy.special.gamma, called by brody_dist at (beta + 2) / b1 = 1.625 only,
\* where it is 0.89657
gamma(x) == RDiv(89657 * SCALE, 100000)

Beta == RDiv(6 * SCALE, 10)

brody_alpha(beta) == np_power(gamma(FDiv(beta + 2 * SCALE, beta + SCALE)), beta + SCALE)

BrodyAlpha == brody_alpha(Beta)

brody_dist(s, beta) ==
    FMulX(FMulX(FMul(beta + SCALE, BrodyAlpha), np_power(s, beta)),
          np_exp(-FMulX(BrodyAlpha, np_power(s, beta + SCALE))))

\* 1 / p**2, 2 / p**2, 1 / (2 * p**2), 1 / (4 * p**2), 5 / 4, p**2 / 8
InvP2 == FDiv(SCALE, P2)

TwoInvP2 == FDiv(2 * SCALE, P2)

InvTwoP2 == FDiv(SCALE, 2 * P2)

InvFourP2 == FDiv(SCALE, 4 * P2)

FiveQuarters == FDiv(5 * SCALE, 4 * SCALE)

P2Eighth == RDiv(P2, 8)

\* 2**18 / (3**6 * p**3), 64 / (9 * p), 32 / p**2, p / 4
NNNSD_coef == FDiv(RDiv(262144 * SCALE, 729), P3)

NNNSD_rate == FDiv(64 * SCALE, 9 * PI)

GUE_nnsd_coef == FDiv(32 * SCALE, P2)

GOE_nnsd_rate == FDiv(PI, 4 * SCALE)

\* coef * (np.log(c * s) + shift)
LogCurve(coef, c, shift, s) ==
    FMulX(coef, FAddX(np_log(FMul(c, s)), shift))

\* coef * (s**4) * np.exp(-(rate * (s * s)))
Wigner4(coef, rate, s) ==
    FMulX(FMul(coef, FMul(FMul(s, s), FMul(s, s))),
          np_exp(-FMul(rate, FMul(s, s))))

\* the value each observable returns at one point s
Poisson_nnsd_at(s) == np_exp(-s)

Poisson_nnnsd_at(s) == brody_dist(s, Beta)

Poisson_spectral_rigidity_at(s) == RDiv(RDiv(s, 15), 2)

Poisson_level_variance_at(s) == RDiv(s, 2)

GOE_nnsd_at(s) ==
    FMulX(RDiv(FMul(PI, s), 2), np_exp(FMul(FMul(-GOE_nnsd_rate, s), s)))

GOE_nnnsd_at(s) == Wigner4(NNNSD_coef, NNNSD_rate, s)

GOE_spectral_rigidity_at(s) ==
    LogCurve(InvP2, 2 * PI, euler_gamma - FiveQuarters - P2Eighth, s)

GOE_level_variance_at(s) ==
    LogCurve(TwoInvP2, 2 * PI, euler_gamma + SCALE - P2Eighth, s)

GUE_nnsd_at(s) ==
    FMulX(FMul(GUE_nnsd_coef, FMul(s, s)),
          np_exp(FDiv(-FMul(4 * s, s), PI)))

GUE_spectral_rigidity_at(s) ==
    LogCurve(InvTwoP2, 2 * PI, euler_gamma - FiveQuarters, s)

GUE_level_variance_at(s) == LogCurve(InvP2, 2 * PI, euler_gamma + SCALE, s)

GSE_nnsd_at(s) == Wigner4(NNNSD_coef, NNNSD_rate, s)

GSE_spectral_rigidity_at(s) ==
    LogCurve(InvFourP2, 4 * PI, euler_gamma - FiveQuarters + P2Eighth, s)

GSE_level_variance_at(s) ==
    LogCurve(InvTwoP2, 4 * PI, euler_gamma + SCALE + P2Eighth, s)

Poisson_nnsd(spacings_range, n_points, spacings) ==
    LET s == IF spacings # None THEN ValueOf(spacings)
             ELSE np_linspace(spacings_range[1], spacings_range[2], n_points)
    IN  Value(Pointwise(Poisson_nnsd_at, s))

Poisson_nnnsd(spacings_range, n_points, spacings) ==
    LET s == IF spacings # None THEN ValueOf(spacings)
             ELSE np_linspace(spacings_range[1], spacings_range[2], n_points)
    IN  Value(Pointwise(Poisson_nnnsd_at, s))

Poisson_spectral_rigidity(min_L, max_L, L_grid_size, L) ==
    LET s == IF L # None THEN ValueOf(L)
             ELSE np_linspace(min_L, max_L, L_grid_size)
    IN  Value(Pointwise(Poisson_spectral_rigidity_at, s))

Poisson_level_variance(min_L, max_L, L_grid_size, L) ==
    LET s == IF L # None THEN ValueOf(L)
             ELSE np_linspace(min_L, max_L, L_grid_size)
    IN  Value(Pointwise(Poisson_level_variance_at, s))

GOE_nnsd(spacings_range, n_points, spacings) ==
    LET s == IF spacings # None THEN ValueOf(spacings)
             ELSE np_linspace(spacings_range[1], spacings_range[2], n_points)
    IN  Value(Pointwise(GOE_nnsd_at, s))

GOE_nnnsd_halved(spacings_range, n_points, spacings) ==
    LET s == Halved(IF spacings # None THEN ValueOf(spacings)
                    ELSE np_linspace(spacings_range[1], spacings_range[2],
                                     n_points))
    IN  Value(Pointwise(GOE_nnnsd_at, s))

GOE_nnnsd(spacings_range, n_points, spacings) ==
    LET s == IF spacings # None THEN ValueOf(spacings)
             ELSE Halved(np_linspace(spacings_range[1], spacings_range[2],
                                     n_points))
    IN  Value(Pointwise(GOE_nnnsd_at, s))

GOE_spectral_rigidity(min_L, max_L, L_grid_size, L) ==
    LET s == IF L # None THEN ValueOf(L)
             ELSE np_linspace(min_L, max_L, L_grid_size)
    IN  Value(Pointwise(GOE_spectral_rigidity_at, s))

GOE_level_variance(min_L, max_L, L_grid_size, L) ==
    LET s == IF L # None THEN ValueOf(L)
             ELSE np_linspace(min_L, max_L, L_grid_size)
    IN  Value(Pointwise(GOE_level_variance_at, s))

\* the grid size GUE.nnsd passes to np.linspace
GUE_nnsd_points == 10000

GUE_nnsd(spacings_range, n_points, spacings) ==
    LET s == IF spacings # None THEN ValueOf(spacings)
             ELSE np_linspace(spacings_range[1], spacings_range[2],
                              GUE_nnsd_points)
    IN  Value(Pointwise(GUE_nnsd_at, s))

GUE_nnnsd_explicit(spacings_range, n_points, spacings) ==
    IF spacings # None
    THEN GOE_nnnsd(spacings_range, n_points, spacings)
    ELSE Failure("NotImplementedError", <<>>)

GUE_nnnsd(spacings_range, n_points, spacings) ==
    Failure("NotImplementedError", <<>>)

GUE_spectral_rigidity(min_L, max_L, L_grid_size, L) ==
    LET s == IF L # None THEN ValueOf(L)
             ELSE np_linspace(min_L, max_L, L_grid_size)
    IN  Value(Pointwise(GUE_spectral_rigidity_at, s))

GUE_level_variance(min_L, max_L, L_grid_size, L) ==
    LET s == IF L # None THEN ValueOf(L)
             ELSE np_linspace(min_L, max_L, L_grid_size)
    IN  Value(Pointwise(GUE_level_variance_at, s))

\* the grid size GSE.nnsd passes to np.linspace
GSE_nnsd_points == 10000

GSE_nnsd(spacings_range, n_points, spacings) ==
    LET s == IF spacings # None THEN ValueOf(spacings)
             ELSE np_linspace(spacings_range[1], spacings_range[1],
                              GSE_nnsd_points)
    IN  Value(Pointwise(GSE_nnsd_at, s))

GSE_nnnsd(spacings_range, n_points, spacings) ==
    Failure("NotImplementedError", <<>>)

GSE_spectral_rigidity(min_L, max_L, L_grid_size, L) ==
    LET s == IF L # None THEN ValueOf(L)
             ELSE np_linspace(min_L, max_L, L_grid_size)
    IN  Value(Pointwise(GSE_spectral_rigidity_at, s))

GSE_level_variance(min_L, max_L, L_grid_size, L) ==
    LET s == IF L # None THEN ValueOf(L)
             ELSE np_linspace(min_L, max_L, L_grid_size)
    IN  Value(Pointwise(GSE_level_variance_at, s))

Ensembles == {"Poisson", "GOE", "GUE", "GSE"}

nnsd(ensemble, spacings_range, n_points, spacings) ==
    IF ensemble = "Poisson" THEN Poisson_nnsd(spacings_range, n_points, spacings)
    ELSE IF ensemble = "GOE" THEN GOE_nnsd(spacings_range, n_points, spacings)
    ELSE IF ensemble = "GUE" THEN GUE_nnsd(spacings_range, n_points, spacings)
    ELSE GSE_nnsd(spacings_range, n_points, spacings)

nnnsd(ensemble, spacings_range, n_points, spacings) ==
    IF ensemble = "Poisson"
    THEN Poisson_nnnsd(spacings_range, n_points, spacings)
    ELSE IF ensemble = "GOE" THEN GOE_nnnsd(spacings_range, n_points, spacings)
    ELSE IF ensemble = "GUE" THEN GUE_nnnsd(spacings_range, n_points, spacings)
    ELSE GSE_nnnsd(spacings_range, n_points, spacings)

spectral_rigidity(ensemble, min_L, max_L, L_grid_size, L) ==
    IF ensemble = "Poisson"
    THEN Poisson_spectral_rigidity(min_L, max_L, L_grid_size, L)
    ELSE IF ensemble = "GOE"
    THEN GOE_spectral_rigidity(min_L, max_L, L_grid_size, L)
    ELSE IF ensemble = "GUE"
    THEN GUE_spectral_rigidity(min_L, max_L, L_grid_size, L)
    ELSE GSE_spectral_rigidity(min_L, max_L, L_grid_size, L)

level_variance(ensemble, min_L, max_L, L_grid_size, L) ==
    IF ensemble = "Poisson"
    THEN Poisson_level_variance(min_L, max_L, L_grid_size, L)
    ELSE IF ensemble = "GOE"
    THEN GOE_level_variance(min_L, max_L, L_grid_size, L)
    ELSE IF ensemble = "GUE"
    THEN GUE_level_variance(min_L, max_L, L_grid_size, L)
    ELSE GSE_level_variance(min_L, max_L, L_grid_size, L)

(* -------------------------- Unfolded methods -------------------------- *)
Unfolded_values(self) == self.vals

Unfolded_vals(self) == self.vals

\* what a plot function hands back: the figure in mode "return", else None
PlotModes == {"block", "noblock", "save", "return"}

PlotResult(mode) == IF mode = "return" THEN "figure" ELSE "None"

\* EigVals.plot_spacings, which draws the spacings of the stored values
EigVals_plot_spacings(self, mode) == PlotResult(mode)

plot_nnsd(self, mode) == EigVals_plot_spacings(self, mode)

\* the L grid of spectralRigidity and level_number_variance: L_grid_size
\* defaults to 2 * (max_L - min_L); the estimates, one per L, are random and
\* are not modelled
observable_L(unfolded, L_grid_size, min_L, max_L) ==
    np_linspace(min_L * SCALE, max_L * SCALE,
                IF L_grid_size = None THEN 2 * (max_L - min_L)
                ELSE ValueOf(L_grid_size))

plot_spectral_rigidity(self, min_L, max_L, L_grid_size, mode) ==
    LET unfolded == Unfolded_values(self)
    IN  [L |-> observable_L(unfolded, L_grid_size, min_L, max_L),
         plot_result |-> PlotResult(mode)]

plot_level_variance(self, min_L, max_L, L_grid_size, mode) ==
    LET unfolded == Unfolded_values(self)
    IN  [L |-> observable_L(unfolded, L_grid_size, min_L, max_L),
         plot_result |-> PlotResult(mode)]

(* ------------------------- the eigenvalue cache ----------------------- *)
\* the disk: a function from the paths of the files that exist to their
\* contents; a path is a directory and a file name
NoFiles == <<>>

\* the directory of the test module, and the directories the process may
\* have as its working directory
CUR_DIR == "tests"

Dirs == {"tests", "elsewhere"}

\* CUR_DIR / f"test_eigs{matsize}.npy"
eigs_out(matsize) ==
    [dir |-> CUR_DIR, name |-> <<"test_eigs", ToString(matsize), ".npy">>]

\* the relative path "test_eigs.npy" in the working directory cwd
SavedPath(cwd) == [dir |-> cwd, name |-> <<"test_eigs", "", ".npy">>]

\* res(path): the absolute path as a string
res(path) == <<path.dir>> \o path.name

\* the content of a .npy file holding the array arr of type dtype
NpyFile(dtype, arr) == [readable |-> TRUE, dtype |-> dtype, data |-> arr]

\* a file the process may not read
Unreadable == [readable |-> FALSE, dtype |-> "float64", data |-> <<>>]

\* np.load(path) succeeds: the file exists and can be read
np_load_ok(disk, path) == path \in DOMAIN disk /\ disk[path].readable

\* np.save(path, arr): the file at path holds arr afterwards
np_save(disk, path, dtype, arr) == (path :> NpyFile(dtype, arr)) @@ disk

\* generateGOEMatrix and getEigs, the legacy names of the GOE matrix
\* construction and of its eigenvalues
generateGOEMatrix(s, matsize) == generate_GOE_matrix(s, matsize, 0, SCALE)

getEigs(M) == eigvalsh(M)

\* load_eigs(matsize), called with the working directory cwd; the miss path
\* prints the IOError
load_eigs(s, disk, cwd, matsize) ==
    IF np_load_ok(disk, eigs_out(matsize))
    THEN [res |-> Returned(disk[eigs_out(matsize)].data, s, 0),
          files |-> disk]
    ELSE LET eigs == getEigs(generateGOEMatrix(s, matsize))
         IN  [res |-> Returned(eigs, Advance(s, matsize * matsize), 1),
              files |-> np_save(disk, SavedPath(cwd), "str",
                                res(eigs_out(matsize)))]

(* ------------------------------ arguments ----------------------------- *)
Kinds == {"goe", "gue", "poisson", "uniform", "gse"}

Means == {0, SCALE}

Sds == {SCALE, 2 * SCALE}

SmallSizes == 1..MaxSmall

\* matsize around the threshold of fast_poisson_eigs
FastSizes == (FastPathMin - 1)..(FastPathMin + MaxExtra)

SubSizes(matsize) ==
    (0..MaxSub) \cup {matsize \div 2, matsize - 1, matsize, matsize + 1}

(* ------------------------------- actions ------------------------------ *)
Init ==
    /\ rng \in 0..(RngPeriod - 1)
    /\ call = NoCall
    /\ obj = NoObj
    /\ files = NoFiles

Call_generate_eigs ==
    /\ call = NoCall
    /\ \E matsize \in SmallSizes, mean \in Means, sd \in Sds,
          kind \in Kinds, log \in BOOLEAN :
          LET r == generate_eigs(rng, matsize, mean, sd, kind, log)
          IN  /\ call' = [op |-> "generate_eigs",
                          args |-> [matsize |-> matsize, mean |-> mean,
                                    sd |-> sd, kind |-> kind, log |-> log],
                          rng_in |-> rng,
                          res |-> r]
              /\ rng' = r.rng
    /\ UNCHANGED <<obj, files>>

Call_goe_unfolded ==
    /\ call = NoCall
    /\ \E matsize \in SmallSizes :
          LET r == goe_unfolded(rng, matsize)
          IN  /\ call' = [op |-> "goe_unfolded",
                          args |-> [matsize |-> matsize],
                          rng_in |-> rng,
                          res |-> r]
              /\ rng' = r.rng
    /\ UNCHANGED <<obj, files>>

Call_fast_poisson_eigs ==
    /\ call = NoCall
    /\ \E matsize \in SmallSizes \cup FastSizes :
          \E sub_matsize \in SubSizes(matsize) :
             LET r == fast_poisson_eigs(rng, matsize, sub_matsize)
             IN  /\ call' = [op |-> "fast_poisson_eigs",
                             args |-> [matsize |-> matsize,
                                       sub_matsize |-> sub_matsize],
                             rng_in |-> rng,
                             res |-> r]
                 /\ rng' = r.rng
    /\ UNCHANGED <<obj, files>>

Call_generate_uniform ==
    /\ call = NoCall
    /\ \E matsize \in SmallSizes, lower \in {0, SCALE}, upper \in {0, SCALE} :
          LET r == generate_uniform(rng, matsize, lower, upper)
          IN  /\ call' = [op |-> "generate_uniform",
                          args |-> [matsize |-> matsize, lower |-> lower,
                                    upper |-> upper],
                          rng_in |-> rng,
                          res |-> r]
              /\ rng' = r.rng
    /\ UNCHANGED <<obj, files>>

\* the client takes the result of the finished call
Return ==
    /\ call # NoCall
    /\ call' = NoCall
    /\ UNCHANGED <<rng, obj, files>>

Next ==
    \/ Call_generate_eigs
    \/ Call_goe_unfolded
    \/ Call_fast_poisson_eigs
    \/ Call_generate_uniform
    \/ Return

Spec == Init /\ [][Next]_vars

(* -------------------------- ensemble calls ---------------------------- *)
MaxPoints == 3

MaxLen == 2

Ranges == {<<0, 3 * SCALE>>, <<SCALE \div 2, 2 * SCALE>>}

PointValues == {0, SCALE \div 2, 3 * SCALE}

PointArrays == UNION {[1..n -> PointValues] : n \in 0..MaxLen}

OptionalPoints == {None} \cup {Given(a) : a \in PointArrays}

Call_nnsd ==
    /\ call = NoCall
    /\ \E ensemble \in Ensembles, spacings_range \in Ranges,
          n_points \in 0..MaxPoints, spacings \in OptionalPoints :
          call' = [op |-> "nnsd",
                   args |-> [ensemble |-> ensemble, range |-> spacings_range,
                             count |-> n_points, points |-> spacings],
                   rng_in |-> rng,
                   res |-> nnsd(ensemble, spacings_range, n_points, spacings)]
    /\ UNCHANGED <<rng, obj, files>>

Call_nnnsd ==
    /\ call = NoCall
    /\ \E ensemble \in Ensembles, spacings_range \in Ranges,
          n_points \in 0..MaxPoints, spacings \in OptionalPoints :
          call' = [op |-> "nnnsd",
                   args |-> [ensemble |-> ensemble, range |-> spacings_range,
                             count |-> n_points, points |-> spacings],
                   rng_in |-> rng,
                   res |-> nnnsd(ensemble, spacings_range, n_points, spacings)]
    /\ UNCHANGED <<rng, obj, files>>

Call_spectral_rigidity ==
    /\ call = NoCall
    /\ \E ensemble \in Ensembles, L_range \in Ranges,
          L_grid_size \in 0..MaxPoints, L \in OptionalPoints :
          call' = [op |-> "spectral_rigidity",
                   args |-> [ensemble |-> ensemble, range |-> L_range,
                             count |-> L_grid_size, points |-> L],
                   rng_in |-> rng,
                   res |-> spectral_rigidity(ensemble, L_range[1], L_range[2],
                                             L_grid_size, L)]
    /\ UNCHANGED <<rng, obj, files>>

Call_level_variance ==
    /\ call = NoCall
    /\ \E ensemble \in Ensembles, L_range \in Ranges,
          L_grid_size \in 0..MaxPoints, L \in OptionalPoints :
          call' = [op |-> "level_variance",
                   args |-> [ensemble |-> ensemble, range |-> L_range,
                             count |-> L_grid_size, points |-> L],
                   rng_in |-> rng,
                   res |-> level_variance(ensemble, L_range[1], L_range[2],
                                          L_grid_size, L)]
    /\ UNCHANGED <<rng, obj, files>>

NextEns ==
    \/ Call_nnsd
    \/ Call_nnnsd
    \/ Call_spectral_rigidity
    \/ Call_level_variance
    \/ Return

\* the ensemble operations neither read nor advance the generator: one
\* generator state stands for all of them
InitEns ==
    /\ Init
    /\ rng = 0

SpecEns == InitEns /\ [][NextEns]_vars

(* --------------------------- Unfolded objects ------------------------- *)
MaxSeq == 2

SeqValues == {0, SCALE}

Arrays == UNION {[1..n -> SeqValues] : n \in 0..MaxSeq}

\* Unfolded(originals, unfolded)
New_Unfolded ==
    /\ call = NoCall
    /\ obj = NoObj
    /\ \E originals \in Arrays, unfolded \in Arrays :
          /\ obj' = Unfolded_init(originals, unfolded)
          /\ call' = [op |-> "Unfolded",
                      args |-> [originals |-> originals,
                                unfolded |-> unfolded],
                      rng_in |-> rng,
                      res |-> Returned("self", rng, 0)]
    /\ UNCHANGED <<rng, files>>

\* goe_unfolded(matsize), whose caller keeps the object
Keep_goe_unfolded ==
    /\ call = NoCall
    /\ obj = NoObj
    /\ \E matsize \in SmallSizes :
          LET r == goe_unfolded(rng, matsize)
          IN  /\ call' = [op |-> "goe_unfolded",
                          args |-> [matsize |-> matsize],
                          rng_in |-> rng,
                          res |-> r]
              /\ rng' = r.rng
              /\ obj' = IF r.status = "returned" THEN r.value ELSE NoObj
    /\ UNCHANGED files

Get_values ==
    /\ call = NoCall
    /\ obj # NoObj
    /\ call' = [op |-> "values", args |-> <<>>, rng_in |-> rng,
                res |-> Returned(Unfolded_values(obj), rng, 0)]
    /\ UNCHANGED <<rng, obj, files>>

Get_vals ==
    /\ call = NoCall
    /\ obj # NoObj
    /\ call' = [op |-> "vals", args |-> <<>>, rng_in |-> rng,
                res |-> Returned(Unfolded_vals(obj), rng, 0)]
    /\ UNCHANGED <<rng, obj, files>>

Call_plot_nnsd ==
    /\ call = NoCall
    /\ obj # NoObj
    /\ \E mode \in PlotModes :
          call' = [op |-> "plot_nnsd", args |-> [mode |-> mode],
                   rng_in |-> rng,
                   res |-> Returned(plot_nnsd(obj, mode), rng, 0)]
    /\ UNCHANGED <<rng, obj, files>>

GridSizes == {None, Given(0), Given(3)}

Call_plot_spectral_rigidity ==
    /\ call = NoCall
    /\ obj # NoObj
    /\ \E max_L \in {2, 3}, L_grid_size \in GridSizes, mode \in PlotModes :
          call' = [op |-> "plot_spectral_rigidity",
                   args |-> [min_L |-> 2, max_L |-> max_L,
                             L_grid_size |-> L_grid_size, mode |-> mode],
                   rng_in |-> rng,
                   res |-> Returned(plot_spectral_rigidity(
                              obj, 2, max_L, L_grid_size, mode), rng, 0)]
    /\ UNCHANGED <<rng, obj, files>>

Call_plot_level_variance ==
    /\ call = NoCall
    /\ obj # NoObj
    /\ \E max_L \in {2, 3}, L_grid_size \in GridSizes, mode \in PlotModes :
          call' = [op |-> "plot_level_variance",
                   args |-> [min_L |-> 2, max_L |-> max_L,
                             L_grid_size |-> L_grid_size, mode |-> mode],
                   rng_in |-> rng,
                   res |-> Returned(plot_level_variance(
                              obj, 2, max_L, L_grid_size, mode), rng, 0)]
    /\ UNCHANGED <<rng, obj, files>>

\* the last reference to the object goes away
Drop ==
    /\ call = NoCall
    /\ obj # NoObj
    /\ obj' = NoObj
    /\ UNCHANGED <<rng, call, files>>

NextUnf ==
    \/ New_Unfolded
    \/ Keep_goe_unfolded
    \/ Get_values
    \/ Get_vals
    \/ Call_plot_nnsd
    \/ Call_plot_spectral_rigidity
    \/ Call_plot_level_variance
    \/ Return
    \/ Drop

SpecUnf == Init /\ [][NextUnf]_vars

(* --------------------------- the test cache --------------------------- *)
\* a cache file may be on disk before the first call: left by an earlier
\* program, readable or not
ForeignFiles == {NpyFile("float64", <<0>>), Unreadable}

InitCache ==
    /\ rng \in 0..(RngPeriod - 1)
    /\ call = NoCall
    /\ obj = NoObj
    /\ \/ files = NoFiles
       \/ \E matsize \in SmallSizes, content \in ForeignFiles :
             files = (eigs_out(matsize) :> content)

Call_load_eigs ==
    /\ call = NoCall
    /\ \E matsize \in SmallSizes, cwd \in Dirs :
          LET r == load_eigs(rng, files, cwd, matsize)
          IN  /\ call' = [op |-> "load_eigs",
                          args |-> [matsize |-> matsize, cwd |-> cwd],
                          rng_in |-> rng,
                          res |-> r.res]
              /\ rng' = r.res.rng
              /\ files' = r.files
    /\ UNCHANGED obj

NextCache ==
    \/ Call_load_eigs
    \/ Return

SpecCache == InitCache /\ [][NextCache]_vars

(* ----------------------------- properties ----------------------------- *)
\* the error kinds of the library: ValueError is an invalid argument;
\* NotImplementedError and the "UNIMPLEMENTED!" exception are an
\* unsupported operation
ErrorKind(error) ==
    IF error.class = "ValueError" THEN "InvalidArgument"
    ELSE IF error.class = "NotImplementedError" THEN "Unsupported"
    ELSE IF error.class = "Exception" /\ error.msg = <<"UNIMPLEMENTED!">>
    THEN "Unsupported"
    ELSE "Other"

FastCall == call.op = "fast_poisson_eigs"

\* a finished fast_poisson_eigs call with matsize >= 100 and
\* 1 <= sub_matsize < matsize
BlockCall ==
    /\ FastCall
    /\ call.args.matsize >= FastPathMin
    /\ 1 <= call.args.sub_matsize
    /\ call.args.sub_matsize < call.args.matsize

\* C1: with matsize >= 100 and 1 <= sub_matsize < matsize, fast_poisson_eigs
\* returns exactly matsize eigenvalues, drawn as floor(matsize / sub_matsize)
\* matrices of size sub_matsize and one of size matsize mod sub_matsize
C1_FastPathLength ==
    BlockCall =>
        LET m == call.args.matsize
            b == call.args.sub_matsize
        IN  /\ call.res.status = "returned"
            /\ Len(call.res.value) = m
            /\ Len(call.res.value) = (m \div b) * b + (m % b)
            /\ call.res.rng =
                 Advance(call.rng_in, (m \div b) * b * b + (m % b) * (m % b))

\* C1 witness: sub_matsize divides matsize, the remainder block is empty
C1_Witness ==
    /\ BlockCall
    /\ call.args.matsize % call.args.sub_matsize = 0
    /\ call.args.sub_matsize > 1
    /\ call.res.status = "returned"
    /\ Len(call.res.value) = call.args.matsize

\* C2 as stated: every call with sub_matsize >= matsize fails with an
\* invalid-argument error, for every matsize
C2_AlwaysRejected ==
    (FastCall /\ call.args.sub_matsize >= call.args.matsize) =>
        /\ call.res.status = "raised"
        /\ ErrorKind(call.res.error) = "InvalidArgument"

\* C2 amended: a call with matsize >= 100 and sub_matsize >= matsize fails
\* with an invalid-argument error, drawing nothing; a call with matsize < 100
\* returns matsize eigenvalues whatever sub_matsize is
C2_RejectedOnFastPath ==
    FastCall =>
        /\ (call.args.matsize >= FastPathMin
              /\ call.args.sub_matsize >= call.args.matsize) =>
               /\ call.res.status = "raised"
               /\ ErrorKind(call.res.error) = "InvalidArgument"
               /\ call.res.error.msg = SubmatricesError
        /\ call.args.matsize < FastPathMin =>
               /\ call.res.status = "returned"
               /\ Len(call.res.value) = call.args.matsize

\* C2 witness: sub_matsize = matsize on the fast path is rejected
C2_Witness ==
    /\ FastCall
    /\ call.args.matsize >= FastPathMin
    /\ call.args.sub_matsize = call.args.matsize
    /\ call.res.status = "raised"

\* C3: every eigenvalue sequence generate_eigs and fast_poisson_eigs return
\* is non-decreasing
C3_Ascending ==
    (call.op \in {"generate_eigs", "fast_poisson_eigs"}
        /\ call.res.status = "returned") => IsAscending(call.res.value)

\* C3 witness: the block path returned a spectrum whose blocks overlap
C3_Witness ==
    /\ BlockCall
    /\ call.res.status = "returned"
    /\ IsAscending(call.res.value)
    /\ ~IsAscending(eigs_submats(call.rng_in, call.args.matsize,
                                 call.args.sub_matsize)
                      \o eigs_remain(call.rng_in, call.args.matsize,
                                     call.args.sub_matsize))

\* C4: generate_eigs returns only for the kinds goe, gue, poisson; "uniform"
\* is an unsupported operation; any other kind is an invalid argument whose
\* message lists the four kinds; generate_uniform is always unsupported
C4_Unsupported ==
    /\ call.op = "generate_eigs" =>
         /\ call.res.status = "returned" <=>
              call.args.kind \in {"goe", "gue", "poisson"}
         /\ call.args.kind = "uniform" =>
              /\ call.res.status = "raised"
              /\ ErrorKind(call.res.error) = "Unsupported"
         /\ call.args.kind \notin {"goe", "gue", "poisson", "uniform"} =>
              /\ call.res.status = "raised"
              /\ ErrorKind(call.res.error) = "InvalidArgument"
              /\ \A k \in {"goe", "gue", "poisson", "uniform"} :
                    \E i \in 1..Len(call.res.error.msg) :
                        call.res.error.msg[i] = k
    /\ call.op = "generate_uniform" =>
         /\ call.res.status = "raised"
         /\ call.res.error.class = "NotImplementedError"
         /\ ErrorKind(call.res.error) = "Unsupported"

\* C4 witness: generate_eigs was called with kind "uniform" and failed
C4_Witness ==
    /\ call.op = "generate_eigs"
    /\ call.args.kind = "uniform"
    /\ call.args.log
    /\ call.res.status = "raised"

C6_ParallelLengths ==
    obj # NoObj => Len(obj.originals) = Len(obj.vals)

ObservableOps == {"nnsd", "nnnsd", "spectral_rigidity", "level_variance"}

\* the observable the call names, with the given arguments
Observable(op, ensemble, range, count, points) ==
    IF op = "nnsd" THEN nnsd(ensemble, range, count, points)
    ELSE IF op = "nnnsd" THEN nnnsd(ensemble, range, count, points)
    ELSE IF op = "spectral_rigidity"
    THEN spectral_rigidity(ensemble, range[1], range[2], count, points)
    ELSE level_variance(ensemble, range[1], range[2], count, points)

\* the closed form of the observable at one point
CurveAt(op, ensemble, s) ==
    IF op = "nnsd"
    THEN IF ensemble = "Poisson" THEN Poisson_nnsd_at(s)
         ELSE IF ensemble = "GOE" THEN GOE_nnsd_at(s)
         ELSE IF ensemble = "GUE" THEN GUE_nnsd_at(s)
         ELSE GSE_nnsd_at(s)
    ELSE IF op = "nnnsd"
    THEN IF ensemble = "Poisson" THEN Poisson_nnnsd_at(s)
         ELSE GOE_nnnsd_at(s)
    ELSE IF op = "spectral_rigidity"
    THEN IF ensemble = "Poisson" THEN Poisson_spectral_rigidity_at(s)
         ELSE IF ensemble = "GOE" THEN GOE_spectral_rigidity_at(s)
         ELSE IF ensemble = "GUE" THEN GUE_spectral_rigidity_at(s)
         ELSE GSE_spectral_rigidity_at(s)
    ELSE IF ensemble = "Poisson" THEN Poisson_level_variance_at(s)
         ELSE IF ensemble = "GOE" THEN GOE_level_variance_at(s)
         ELSE IF ensemble = "GUE" THEN GUE_level_variance_at(s)
         ELSE GSE_level_variance_at(s)

\* a finished call of an implemented observable: all but GUE.nnnsd, GSE.nnnsd
ImplementedCall ==
    /\ call.op \in ObservableOps
    /\ ~(call.op = "nnnsd" /\ call.args.ensemble \in {"GUE", "GSE"})

\* C7: with explicit points, every implemented observable returns one value
\* per point, the closed form at exactly that point, and the same result for
\* every range and point count
C7_ExplicitPoints ==
    (ImplementedCall /\ call.args.points # None) =>
        LET pts == ValueOf(call.args.points)
        IN  /\ call.res.status = "returned"
            /\ Len(call.res.value) = Len(pts)
            /\ \A i \in 1..Len(pts) :
                  call.res.value[i] =
                      CurveAt(call.op, call.args.ensemble, pts[i])
            /\ \A range \in Ranges, count \in 0..MaxPoints :
                  Observable(call.op, call.args.ensemble, range, count,
                             call.args.points) = call.res

\* C7 witness: GOE.nnnsd with two explicit points and a point count of 0
\* returned the closed form at the two points, unhalved
C7_Witness ==
    /\ call.op = "nnnsd"
    /\ call.args.ensemble = "GOE"
    /\ call.args.count = 0
    /\ call.args.points = Given(<<SCALE \div 2, 3 * SCALE>>)
    /\ call.res.status = "returned"
    /\ call.res.value = <<GOE_nnnsd_at(SCALE \div 2), GOE_nnnsd_at(3 * SCALE)>>
    /\ GOE_nnnsd_at(SCALE \div 2) # GOE_nnnsd_at(SCALE \div 4)

\* the grid the arguments describe; GOE.nnnsd halves it
ArgumentGrid(op, ensemble, range, count) ==
    IF op = "nnnsd" /\ ensemble = "GOE"
    THEN Halved(np_linspace(range[1], range[2], count))
    ELSE np_linspace(range[1], range[2], count)

\* C8 as stated: without explicit points, every implemented observable
\* returns as many values as the point count asks for, the closed form on
\* the even grid from the range minimum to the range maximum
C8_GridFromArguments ==
    (ImplementedCall /\ call.args.points = None) =>
        LET grid == ArgumentGrid(call.op, call.args.ensemble, call.args.range,
                                 call.args.count)
        IN  /\ call.res.status = "returned"
            /\ Len(call.res.value) = call.args.count
            /\ \A i \in 1..call.args.count :
                  call.res.value[i] =
                      CurveAt(call.op, call.args.ensemble, grid[i])

\* C9: GUE.nnnsd and GSE.nnnsd raise NotImplementedError on every call,
\* explicit points or not, and return nothing
C9_NotImplemented ==
    (call.op = "nnnsd" /\ call.args.ensemble \in {"GUE", "GSE"}) =>
        /\ call.res.status = "raised"
        /\ call.res.error.class = "NotImplementedError"
        /\ ErrorKind(call.res.error) = "Unsupported"

\* C9 witness: GUE.nnnsd was called with explicit points and failed
C9_Witness ==
    /\ call.op = "nnnsd"
    /\ call.args.ensemble = "GUE"
    /\ call.args.points # None
    /\ Len(ValueOf(call.args.points)) = MaxLen
    /\ call.res.status = "raised"

\* C10: for matsize < 100, fast_poisson_eigs(matsize, sub_matsize) is
\* generate_eigs(matsize, kind="goe") from the same generator state: the same
\* result, after the matsize * matsize draws of one GOE matrix
C10_Fallback ==
    (FastCall /\ call.args.matsize < FastPathMin) =>
        /\ call.res =
             generate_eigs(call.rng_in, call.args.matsize, 0, SCALE, "goe",
                           FALSE)
        /\ call.res.status = "returned"
        /\ call.res.value =
             eigvalsh(generate_GOE_matrix(call.rng_in, call.args.matsize, 0,
                                          SCALE))
        /\ rng = Advance(call.rng_in, call.args.matsize * call.args.matsize)

\* C10 witness: a fallback call whose sub_matsize would be rejected on the
\* fast path
C10_Witness ==
    /\ FastCall
    /\ call.args.matsize = FastPathMin - 1
    /\ call.args.sub_matsize >= call.args.matsize
    /\ call.res.status = "returned"
    /\ Len(call.res.value) = call.args.matsize

\* C11 as stated: after load_eigs(matsize) took the miss path, the file
\* test_eigs{matsize}.npy of the test directory holds the sequence the call
\* returned, and a following load_eigs(matsize) returns that sequence from
\* the file without drawing from the generator
C11_CacheHoldsResult ==
    (call.op = "load_eigs" /\ call.res.printed = 1) =>
        /\ np_load_ok(files, eigs_out(call.args.matsize))
        /\ files[eigs_out(call.args.matsize)].dtype = "float64"
        /\ files[eigs_out(call.args.matsize)].data = call.res.value
        /\ \A cwd \in Dirs :
              load_eigs(rng, files, cwd, call.args.matsize).res =
                  Returned(call.res.value, rng, 0)

\* C12: a call of generate_eigs, fast_poisson_eigs or generate_uniform that
\* fails has drawn nothing: the generator state after the call is the state
\* before it, so the next call draws what it would have drawn without it
C12_FailureDrawsNothing ==
    (call.op \in {"generate_eigs", "fast_poisson_eigs", "generate_uniform"}
        /\ call.res.status = "raised") =>
        /\ call.res.rng = call.rng_in
        /\ rng = call.rng_in
        /\ \A matsize \in SmallSizes :
              generate_eigs(rng, matsize, 0, SCALE, "goe", FALSE) =
                  generate_eigs(call.rng_in, matsize, 0, SCALE, "goe", FALSE)

\* C12 witness: fast_poisson_eigs failed on sub_matsize > matsize with the
\* generator where it was, in a state from which a successful call draws
C12_Witness ==
    /\ FastCall
    /\ call.args.matsize >= FastPathMin
    /\ call.args.sub_matsize > call.args.matsize
    /\ call.res.status = "raised"
    /\ rng = call.rng_in
    /\ generate_eigs(rng, 1, 0, SCALE, "goe", FALSE).rng # rng

=============================================================================
